---- MODULE Spec2Model ----
(***************************************************************************)
(* A model of javabind: the module load sequence (java_initialization_impl *)
(* and the registration builders), the generated trampolines that work on  *)
(* opaque native-backed objects, and the per-thread environment through    *)
(* which global references are released.                                   *)
(*                                                                         *)
(* The specifications of the module:                                       *)
(*   SpecLoad  - the builders and the load routine, then conversions       *)
(*   SpecTramp - trampolines running concurrently on managed threads       *)
(*   SpecSeq   - trampolines and object arguments, one call at a time      *)
(*   SpecEnv   - threads, their Environment and shared global references   *)
(*   SpecLife  - JNI_OnLoad and JNI_OnUnload, threads calling callables    *)
(*   SpecRef   - the wrappers that own local references                    *)
(*   SpecView  - Adapter::invoke with views among the arguments            *)
(*   SpecCallback - native callback objects and their managed wrappers     *)
(*   SpecAcq   - native code that looks up classes, methods and fields     *)
(*   SpecConv  - the converters of the marshalling catalog                 *)
(***************************************************************************)
EXTENDS Integers, Sequences, FiniteSets, TLC

(***************************************************************************)
(* Bounds of the model.                                                    *)
(***************************************************************************)
MaxFnClasses == 2
MaxRecords == 1
MaxEnums == 1
MaxBuilderCalls == 3
MaxThreads == 2
MaxObjects == 1
MaxRefs == 2
MaxWrappers == 3
MaxLocals == 2
MaxArgs == 2
MaxCallbacks == 3
MaxLen == 2

FnClassNames == 1..MaxFnClasses
RecordSigs == 1..MaxRecords
EnumClassNames == 1..MaxEnums
FieldNames == {"x", "y"}
NativeEnumValues == {0, 1}
EnumConstNames == {"R", "G"}
Threads == 1..MaxThreads
Objects == 1..MaxObjects
Refs == 1..MaxRefs
Wrappers == 1..MaxWrappers
LocalRefs == 1..MaxLocals

(***************************************************************************)
(* Status codes of the runtime interface, kept symbolic.                   *)
(***************************************************************************)
JNI_OK == "JNI_OK"
JNI_ERR == "JNI_ERR"
JNI_EDETACHED == "JNI_EDETACHED"
JNI_EVERSION == "JNI_EVERSION"
JNI_VERSION_1_6 == "JNI_VERSION_1_6"

\* The number of add<R, T>() calls chained on the CallbackRegistry.
NumCallbackAdds == 19

NoException == [class |-> "none", message |-> <<>>]
NullVM == "nullptr"
TheVM == "vm"

VARIABLES
    \* ---- load routine and registries ----
    lpc,               \* position of the load routine
    _vm,               \* Environment::_vm
    rc,                \* local variable rc of java_initialization_impl
    result,            \* value returned by the load routine
    pending,           \* pending managed exception of the loading thread
    calls,             \* builder calls made so far by the user initializer
    builders,          \* builder objects constructed by the user initializer
    FunctionBindings,  \* FunctionBindings::value
    FieldBindings,     \* FieldBindings::value
    EnumBindings,      \* EnumBindings::value (the _names of each EnumBinding)
    EnumValues,        \* EnumValues<T> static tables, per enum type
    fnDone,            \* keys of FunctionBindings already iterated
    recDone,           \* keys of FieldBindings already iterated
    enumDone,          \* keys of EnumBindings already iterated
    installed,         \* classes whose natives RegisterNatives has installed
    cbInstalled,       \* number of callback classes with natives installed
    failures,          \* steps of the load at which the runtime reported failure
    \* ---- opaque objects and trampolines ----
    handle,            \* the nativePointer field of each managed object (0 is null)
    allocated,         \* managed objects that AllocObject has created
    heap,              \* state of the native object made for each managed object
    deletes,           \* how many times delete ran on each native object
    destroyed,         \* objects on which a destructor trampoline has completed
    tpc,               \* position of each managed thread inside a trampoline
    tlocal,            \* locals of the trampoline each thread is running
    last,              \* the trampoline invocation that completed most recently
    \* ---- threads, their Environment, and global references ----
    tstate,            \* "new", "running" or "exited", per thread
    jvmAttached,       \* whether the runtime has the thread attached
    _env,              \* this_thread._env of each thread (0 is nullptr)
    _attached,         \* this_thread._attached of each thread
    attacher,          \* who attached each thread: "nobody", "runtime" or "library"
    detached,          \* threads on which ~Environment called DetachCurrentThread
    invoked,           \* the latest invocation of a native function wrapping a managed callable
    refs,              \* each global reference: its state, creating env and shared owners
    released,          \* the DeleteGlobalRef calls issued so far
    \* ---- scoped wrappers of local references ----
    wrappers,          \* each LocalObjectRef / LocalClassRef: its lifetime and its _ref
    locals,            \* each local reference: whether acquired, and its DeleteLocalRef calls
    \* ---- classes as registered and as the runtime declares them ----
    valuePairs,        \* the (native value, name) pairs passed to enum_class::value, per enum
    javaConsts,        \* the constants values() returned for each enum the load introspected
    javaFields,        \* the fields GetFieldID knows of each record class the load checked
    conv,              \* the latest enum conversion made by a trampoline
    raised,            \* the latest repeated builder constructor call and what it threw
    vpc,               \* position of Adapter::invoke: idle, args, func, temporaries
    argTypes,          \* parameter kinds of the bound function being invoked
    order,             \* the order the build evaluates the call's arguments in
    evaluated,         \* indices of the arguments converted so far
    temporaries,       \* the live views, in order of construction
    funcThrew,         \* the native function threw
    critical,          \* runtime functions called while a view held a pin
    callbacks,         \* the native callback objects made for managed wrappers
    apc,               \* position of a trampoline whose native code acquires handles
    jpending,          \* the exception pending in the runtime on that thread
    inflight,          \* the native exception propagating through native code
    lookups,           \* per kind of handle: untried, found, or failed and caught
    areturn,           \* what the trampoline handed back to the runtime
    rt,                \* the latest native value sent to managed code and taken back
    fj                 \* the latest managed value converted to a native value

loadVars == <<lpc, _vm, rc, result, pending, calls, builders, FunctionBindings,
              FieldBindings, EnumBindings, EnumValues, fnDone, recDone, enumDone,
              installed, cbInstalled, failures>>

trampVars == <<handle, allocated, heap, deletes, destroyed, tpc, tlocal, last>>

envVars == <<tstate, jvmAttached, _env, _attached, attacher, detached, invoked, refs, released>>

refVars == <<wrappers, locals>>

declVars == <<valuePairs, javaConsts, javaFields, conv, raised>>

pinVars == <<vpc, argTypes, order, evaluated, temporaries, funcThrew, critical>>

cbVars == <<callbacks>>

acqVars == <<apc, jpending, inflight, lookups, areturn>>

cvVars == <<rt, fj>>

extVars == <<acqVars, cvVars>>

auxVars == <<refVars, declVars, pinVars, cbVars, extVars>>

vars == <<loadVars, trampVars, envVars, auxVars>>

Min(S) == CHOOSE x \in S : \A y \in S : x <= y

\* std::map::emplace: inserts only when the key is absent.
Emplace(m, k, v) == IF k \in DOMAIN m THEN m ELSE [x \in DOMAIN m \cup {k} |-> IF x = k THEN v ELSE m[x]]

\* std::map::operator[]: inserts a default value when the key is absent.
Subscript(m, k, dflt) == IF k \in DOMAIN m THEN m ELSE [x \in DOMAIN m \cup {k} |-> IF x = k THEN dflt ELSE m[x]]

EmptyMap == [x \in {} |-> 0]

\* m[k] = v on a map, whether or not the key is present.
Assign(m, k, v) == [x \in DOMAIN m \cup {k} |-> IF x = k THEN v ELSE m[x]]

EmptyEnumValues == [bindings |-> EmptyMap, values_to_objects |-> EmptyMap, ordinals_to_values |-> EmptyMap]

InitLoad ==
    /\ lpc = "unloaded"
    /\ _vm = NullVM
    /\ rc = JNI_OK
    /\ result = "none"
    /\ pending = NoException
    /\ calls = 0
    /\ builders = {}
    /\ FunctionBindings = EmptyMap
    /\ FieldBindings = EmptyMap
    /\ EnumBindings = EmptyMap
    /\ EnumValues = [e \in EnumClassNames |-> EmptyEnumValues]
    /\ fnDone = {}
    /\ recDone = {}
    /\ enumDone = {}
    /\ installed = {}
    /\ cbInstalled = 0
    /\ failures = {}

registries == <<FunctionBindings, FieldBindings, EnumBindings, EnumValues>>
iters == <<fnDone, recDone, enumDone>>
runtime == <<installed, cbInstalled>>

(***************************************************************************)
(* Messages of the managed exceptions raised by the library.               *)
(***************************************************************************)
JavaLangException(reason) == [class |-> "java.lang.Exception", message |-> reason]
RuntimeThrown(kind) == [class |-> kind, message |-> <<"thrown by the runtime">>]

\* throw_exception: clears whatever is pending, then ThrowNew(java.lang.Exception).
throw_exception(reason) == JavaLangException(reason)

(***************************************************************************)
(* The load routine, first part: GetEnv, Environment::load, setEnv.        *)
(***************************************************************************)
LoadBegin ==
    /\ lpc = "unloaded"
    /\ _vm = NullVM                       \* assert(_vm == nullptr) in Environment::load
    /\ \E getEnv \in {JNI_OK, JNI_EDETACHED, JNI_EVERSION} :
         IF getEnv # JNI_OK
         THEN /\ rc' = getEnv
              /\ result' = getEnv
              /\ lpc' = "returned"
              /\ failures' = failures \cup {"GetEnv"}
              /\ UNCHANGED _vm
         ELSE /\ rc' = getEnv
              /\ _vm' = TheVM
              /\ lpc' = "initializer"
              /\ UNCHANGED <<result, failures>>
    /\ UNCHANGED <<trampVars, envVars, auxVars>>
    /\ UNCHANGED <<pending, calls, builders, registries, iters, runtime>>

\* catch (const std::exception& ex) of the load routine.
LoadCatch(what) ==
    /\ pending' = throw_exception(what)
    /\ result' = JNI_ERR
    /\ lpc' = "returned"

(***************************************************************************)
(* The builders, called by the user initializer.                           *)
(***************************************************************************)
CloseBinding == [name |-> "close", is_member |-> TRUE]
FunctionBinding(n, m) == [name |-> n, is_member |-> m]
FieldBinding(n, s) == [name |-> n, signature |-> s]
FieldSignatures == {"I"}

InInitializer == lpc = "initializer" /\ calls < MaxBuilderCalls

NoRegistration == [kind |-> "none", class |-> 0, again |-> FALSE, threw |-> "nothing"]

\* A constructor that ignored the result of emplace.
EmplaceInsertedUnchecked(m, k) == TRUE

\* result.second of std::map::emplace
EmplaceInserted(m, k) == k \notin DOMAIN m

\* throw std::runtime_error(msg() << "... is defined more than once in C++ code")
DefinedMoreThanOnce(what, c) == [type |-> "std::runtime_error", what |-> <<what, c>>]

\* What a builder constructor did when its key was registered before (again).
Registration(kind, c, again, inserted, thrown) ==
    IF again
    THEN [kind |-> kind, class |-> c, again |-> TRUE, threw |-> IF inserted THEN "nothing" ELSE thrown.type]
    ELSE NoRegistration

static_class(c) ==
    /\ InInitializer
    /\ calls' = calls + 1
    /\ FunctionBindings' = Emplace(FunctionBindings, c, <<>>)
    /\ raised' = Registration("static", c, c \in DOMAIN FunctionBindings, EmplaceInserted(FunctionBindings, c),
                              DefinedMoreThanOnce("Static class is defined more than once", c))
    /\ IF ~EmplaceInserted(FunctionBindings, c)
       THEN /\ LoadCatch(DefinedMoreThanOnce("Static class is defined more than once", c).what)
            /\ failures' = failures \cup {"initializer"}
            /\ UNCHANGED builders
       ELSE /\ builders' = builders \cup {<<"static", c>>}
            /\ UNCHANGED <<pending, result, lpc, failures>>
    /\ UNCHANGED <<trampVars, envVars, extVars, refVars, pinVars, cbVars, valuePairs, javaConsts, javaFields, conv>>
    /\ UNCHANGED <<_vm, rc, FieldBindings, EnumBindings, EnumValues, iters, runtime>>

native_class(c) ==
    /\ InInitializer
    /\ calls' = calls + 1
    /\ raised' = Registration("native", c, c \in DOMAIN FunctionBindings, EmplaceInserted(FunctionBindings, c),
                              DefinedMoreThanOnce("Native class is defined more than once", c))
    /\ IF ~EmplaceInserted(FunctionBindings, c)
       THEN /\ LoadCatch(DefinedMoreThanOnce("Native class is defined more than once", c).what)
            /\ failures' = failures \cup {"initializer"}
            /\ UNCHANGED <<builders, FunctionBindings>>
       ELSE /\ FunctionBindings' = Emplace(FunctionBindings, c, <<CloseBinding>>)
            /\ builders' = builders \cup {<<"native", c>>}
            /\ UNCHANGED <<pending, result, lpc, failures>>
    /\ UNCHANGED <<trampVars, envVars, extVars, refVars, pinVars, cbVars, valuePairs, javaConsts, javaFields, conv>>
    /\ UNCHANGED <<_vm, rc, FieldBindings, EnumBindings, EnumValues, iters, runtime>>

\* static_class::function, native_class::function and native_class::constructor.
function(c, name, is_member) ==
    /\ InInitializer
    /\ \/ <<"native", c>> \in builders
       \/ <<"static", c>> \in builders /\ ~is_member
    /\ calls' = calls + 1
    /\ FunctionBindings' = [FunctionBindings EXCEPT ![c] = Append(@, FunctionBinding(name, is_member))]
    /\ UNCHANGED <<trampVars, envVars, auxVars>>
    /\ UNCHANGED <<lpc, _vm, rc, result, pending, builders, FieldBindings, EnumBindings,
                   EnumValues, iters, runtime, failures>>

record_class(s) ==
    /\ InInitializer
    /\ calls' = calls + 1
    /\ FieldBindings' = Emplace(FieldBindings, s, <<>>)
    /\ raised' = Registration("record", s, s \in DOMAIN FieldBindings, EmplaceInserted(FieldBindings, s),
                              DefinedMoreThanOnce("Record class is defined more than once", s))
    /\ IF ~EmplaceInserted(FieldBindings, s)
       THEN /\ LoadCatch(DefinedMoreThanOnce("Record class is defined more than once", s).what)
            /\ failures' = failures \cup {"initializer"}
            /\ UNCHANGED builders
       ELSE /\ builders' = builders \cup {<<"record", s>>}
            /\ UNCHANGED <<pending, result, lpc, failures>>
    /\ UNCHANGED <<trampVars, envVars, extVars, refVars, pinVars, cbVars, valuePairs, javaConsts, javaFields, conv>>
    /\ UNCHANGED <<_vm, rc, FunctionBindings, EnumBindings, EnumValues, iters, runtime>>

field(s, name, sig) ==
    /\ InInitializer
    /\ <<"record", s>> \in builders
    /\ calls' = calls + 1
    /\ FieldBindings' = [FieldBindings EXCEPT ![s] = Append(@, FieldBinding(name, sig))]
    /\ UNCHANGED <<trampVars, envVars, auxVars>>
    /\ UNCHANGED <<lpc, _vm, rc, result, pending, builders, FunctionBindings, EnumBindings,
                   EnumValues, iters, runtime, failures>>

enum_class(e) ==
    /\ InInitializer
    /\ calls' = calls + 1
    /\ EnumBindings' = Emplace(EnumBindings, e, <<>>)
    /\ raised' = Registration("enum", e, e \in DOMAIN EnumBindings, EmplaceInserted(EnumBindings, e),
                              DefinedMoreThanOnce("Enum class is defined more than once", e))
    /\ IF ~EmplaceInserted(EnumBindings, e)
       THEN /\ LoadCatch(DefinedMoreThanOnce("Enum class is defined more than once", e).what)
            /\ failures' = failures \cup {"initializer"}
            /\ UNCHANGED builders
       ELSE /\ builders' = builders \cup {<<"enum", e>>}
            /\ UNCHANGED <<pending, result, lpc, failures>>
    /\ UNCHANGED <<trampVars, envVars, extVars, refVars, pinVars, cbVars, valuePairs, javaConsts, javaFields, conv>>
    /\ UNCHANGED <<_vm, rc, FunctionBindings, FieldBindings, EnumValues, iters, runtime>>

Range(q) == {q[i] : i \in 1..Len(q)}

\* EnumBinding::add: the name is recorded once.
EnumBindingAdd(names, java_name) == IF java_name \in Range(names) THEN names ELSE Append(names, java_name)

\* EnumValues<T>::bind: emplace keeps the first name bound to a native value.
EnumValuesBind(ev, native_value, java_name) ==
    [ev EXCEPT !.bindings = Emplace(@, native_value, java_name)]

value(e, native_value, java_name) ==
    /\ InInitializer
    /\ <<"enum", e>> \in builders
    /\ calls' = calls + 1
    /\ EnumBindings' = [EnumBindings EXCEPT ![e] = EnumBindingAdd(@, java_name)]
    /\ EnumValues' = [EnumValues EXCEPT ![e] = EnumValuesBind(@, native_value, java_name)]
    /\ valuePairs' = [valuePairs EXCEPT ![e] = @ \cup {<<native_value, java_name>>}]
    /\ UNCHANGED <<trampVars, envVars, extVars, refVars, pinVars, cbVars, javaConsts, javaFields, conv, raised>>
    /\ UNCHANGED <<lpc, _vm, rc, result, pending, builders, FunctionBindings, FieldBindings,
                   iters, runtime, failures>>

\* The user initializer throws an exception of its own.
InitializerThrows ==
    /\ lpc = "initializer"
    /\ LoadCatch(<<"user exception">>)
    /\ failures' = failures \cup {"initializer"}
    /\ UNCHANGED <<trampVars, envVars, auxVars>>
    /\ UNCHANGED <<_vm, rc, calls, builders, registries, iters, runtime>>

\* The user initializer returns; the load routine goes on to the callbacks.
InitializerReturns ==
    /\ lpc = "initializer"
    /\ lpc' = "callbacks"
    /\ UNCHANGED <<trampVars, envVars, auxVars>>
    /\ UNCHANGED <<_vm, rc, result, pending, calls, builders, registries, iters, runtime, failures>>

(***************************************************************************)
(* CallbackRegistry(env).add<..>()...code().  firstFail is the position of *)
(* the first class the runtime fails on: 0 is the base class NativeCallback*)
(* i in 1..NumCallbackAdds is the i-th add, NumCallbackAdds + 1 is none.   *)
(* how tells whether FindClass or RegisterNatives failed there.            *)
(***************************************************************************)
CallbackRegistryCode(firstFail) == IF firstFail <= NumCallbackAdds THEN JNI_ERR ELSE JNI_OK

CallbackRegistryPending(firstFail, how) ==
    IF firstFail > NumCallbackAdds THEN NoException
    ELSE IF how = "FindClass"
         THEN throw_exception(<<"Cannot find Java class definition for native callback function", firstFail>>)
         ELSE RuntimeThrown("java.lang.NoSuchMethodError")

RegisterCallbacks ==
    /\ lpc = "callbacks"
    /\ \E firstFail \in 0..(NumCallbackAdds + 1), how \in {"FindClass", "RegisterNatives"} :
         /\ rc' = CallbackRegistryCode(firstFail)
         /\ pending' = CallbackRegistryPending(firstFail, how)
         /\ cbInstalled' = firstFail
         /\ failures' = IF firstFail <= NumCallbackAdds THEN failures \cup {"callbacks"} ELSE failures
    /\ lpc' = "functions"
    /\ UNCHANGED <<trampVars, envVars, auxVars>>
    /\ UNCHANGED <<_vm, result, calls, builders, registries, iters, installed>>

\* ExceptionCheck as it would answer if the check after the loop were dropped.
ExceptionCheckDropped(p) == FALSE

\* JNIEnv::ExceptionCheck
ExceptionCheck(p) == p # NoException

(***************************************************************************)
(* One iteration of the loop over FunctionBindings::value (a std::map,     *)
(* iterated in key order).  found and registered are the answers of        *)
(* FindClass and RegisterNatives.                                          *)
(***************************************************************************)
RegisterFunctionClass ==
    /\ lpc = "functions"
    /\ DOMAIN FunctionBindings \ fnDone # {}
    /\ LET c == Min(DOMAIN FunctionBindings \ fnDone) IN
       \E found \in BOOLEAN, registered \in BOOLEAN :
         IF ~found
         THEN /\ pending' = throw_exception(<<"Cannot find Java class registered as a native class", c>>)
              /\ result' = JNI_ERR
              /\ lpc' = "returned"
              /\ failures' = failures \cup {"function class not found"}
              /\ UNCHANGED <<rc, fnDone, installed>>
         ELSE IF ~registered
         THEN /\ rc' = JNI_ERR
              /\ result' = JNI_ERR
              /\ lpc' = "returned"
              /\ pending' = IF ExceptionCheck(pending) THEN pending ELSE RuntimeThrown("java.lang.NoSuchMethodError")
              /\ failures' = failures \cup {"function class not registered"}
              /\ UNCHANGED <<fnDone, installed>>
         ELSE /\ rc' = JNI_OK
              /\ installed' = installed \cup {c}
              /\ fnDone' = fnDone \cup {c}
              /\ UNCHANGED <<lpc, result, pending, failures>>
    /\ UNCHANGED <<trampVars, envVars, auxVars>>
    /\ UNCHANGED <<_vm, calls, builders, registries, recDone, enumDone, cbInstalled>>

\* The loop is over: if (env->ExceptionCheck()) return JNI_ERR.
FunctionsRegistered ==
    /\ lpc = "functions"
    /\ DOMAIN FunctionBindings \ fnDone = {}
    /\ IF ExceptionCheck(pending)
       THEN result' = JNI_ERR /\ lpc' = "returned"
       ELSE lpc' = "fields" /\ UNCHANGED result
    /\ UNCHANGED <<trampVars, envVars, auxVars>>
    /\ UNCHANGED <<_vm, rc, pending, calls, builders, registries, iters, runtime, failures>>

(***************************************************************************)
(* One iteration of the loop over FieldBindings::value.  declared is the   *)
(* set of (name, signature) pairs the managed class declares.              *)
(***************************************************************************)
JavaFieldSignatures == {"I", "D"}

\* A lookup that compared the field's name and ignored its signature.
FirstMissingFieldByName(bindings, declared) ==
    LET missing == {i \in 1..Len(bindings) : \A d \in declared : d[1] # bindings[i].name}
    IN IF missing = {} THEN 0 ELSE Min(missing)

\* Index of the first binding GetFieldID does not find, 0 when all are found.
FirstMissingField(bindings, declared) ==
    LET missing == {i \in 1..Len(bindings) : <<bindings[i].name, bindings[i].signature>> \notin declared}
    IN IF missing = {} THEN 0 ELSE Min(missing)

CheckRecordClass ==
    /\ lpc = "fields"
    /\ DOMAIN FieldBindings \ recDone # {}
    /\ LET s == Min(DOMAIN FieldBindings \ recDone) IN
       \E found \in BOOLEAN, declared \in SUBSET (FieldNames \X JavaFieldSignatures) :
         LET k == FirstMissingField(FieldBindings[s], declared) IN
         /\ javaFields' = IF found THEN Assign(javaFields, s, declared) ELSE javaFields
         /\ IF ~found
            THEN /\ pending' = throw_exception(<<"Cannot find Java record class", s>>)
                 /\ result' = JNI_ERR
                 /\ lpc' = "returned"
                 /\ failures' = failures \cup {"record class not found"}
                 /\ UNCHANGED recDone
            ELSE IF k # 0
            THEN /\ pending' = throw_exception(<<"Cannot find field", FieldBindings[s][k].name,
                                                 FieldBindings[s][k].signature, s>>)
                 /\ result' = JNI_ERR
                 /\ lpc' = "returned"
                 /\ failures' = failures \cup {"field not found"}
                 /\ UNCHANGED recDone
            ELSE /\ recDone' = recDone \cup {s}
                 /\ UNCHANGED <<lpc, result, pending, failures>>
    /\ UNCHANGED <<trampVars, envVars, extVars, refVars, pinVars, cbVars, valuePairs, javaConsts, conv, raised>>
    /\ UNCHANGED <<_vm, rc, calls, builders, registries, fnDone, enumDone, runtime>>

FieldsChecked ==
    /\ lpc = "fields"
    /\ DOMAIN FieldBindings \ recDone = {}
    /\ lpc' = "enums"
    /\ UNCHANGED <<trampVars, envVars, auxVars>>
    /\ UNCHANGED <<_vm, rc, result, pending, calls, builders, registries, iters, runtime, failures>>

(***************************************************************************)
(* One iteration of the loop over EnumBindings::value.  consts is the      *)
(* array returned by the managed enum's values(), in ordinal order.        *)
(***************************************************************************)
JavaEnumConstants ==
    {q \in UNION {[1..n -> EnumConstNames] : n \in 0..Cardinality(EnumConstNames)} :
        \A i, j \in DOMAIN q : q[i] = q[j] => i = j}

\* Position of a name in the array of constants; its ordinal is one less.
IndexOf(consts, name) == CHOOSE i \in 1..Len(consts) : consts[i] = name

JavaEnumObject(e, name) == <<"enum constant", e, name>>

\* The first constant of the managed enum that was not registered natively, 0 if none.
FirstUnregistered(consts, names) ==
    LET missing == {i \in 1..Len(consts) : consts[i] \notin Range(names)}
    IN IF missing = {} THEN 0 ELSE Min(missing)

\* Merge of std::unordered_map::emplace calls: keys already present keep their value.
EmplaceAll(m, n) == [k \in DOMAIN m \cup DOMAIN n |-> IF k \in DOMAIN m THEN m[k] ELSE n[k]]

(***************************************************************************)
(* EnumValues<T>::initialize after the natives in done have been visited.  *)
(* The iteration order of the unordered_map is unspecified, so when two    *)
(* natives are bound to one name either may claim the ordinal.             *)
(***************************************************************************)
EnumValuesInitialize(ev, e, consts, done) ==
    LET ords == {IndexOf(consts, ev.bindings[nv]) - 1 : nv \in done}
        objs == [nv \in done |-> JavaEnumObject(e, ev.bindings[nv])]
    IN {[ev EXCEPT !.values_to_objects = EmplaceAll(@, objs),
                   !.ordinals_to_values = EmplaceAll(@, o2v)] :
           o2v \in {f \in [ords -> done] : \A o \in ords : IndexOf(consts, ev.bindings[f[o]]) - 1 = o}}

InitEnumClass ==
    /\ lpc = "enums"
    /\ DOMAIN EnumBindings \ enumDone # {}
    /\ LET e == Min(DOMAIN EnumBindings \ enumDone) IN
       \E found \in BOOLEAN, introspected \in BOOLEAN, consts \in JavaEnumConstants :
         LET k == FirstUnregistered(consts, EnumBindings[e])
             bound == DOMAIN EnumValues[e].bindings
             good == {nv \in bound : EnumValues[e].bindings[nv] \in Range(consts)}
         IN
         /\ javaConsts' = IF found /\ introspected THEN [javaConsts EXCEPT ![e] = consts] ELSE javaConsts
         /\ IF ~found \/ ~introspected
            THEN /\ pending' = throw_exception(<<"Cannot find enum class or its methods", e>>)
                 /\ result' = JNI_ERR
                 /\ lpc' = "returned"
                 /\ failures' = failures \cup {"enum class not found"}
                 /\ UNCHANGED <<enumDone, EnumValues>>
            ELSE IF k # 0
            THEN /\ pending' = throw_exception(<<"Enum value is not registered in C++ code", consts[k], e>>)
                 /\ result' = JNI_ERR
                 /\ lpc' = "returned"
                 /\ failures' = failures \cup {"enum constant not registered"}
                 /\ UNCHANGED <<enumDone, EnumValues>>
            ELSE IF good # bound
            THEN \* values.at() throws std::out_of_range part-way through initialize
                 /\ \E done \in SUBSET good :
                      \E ev \in EnumValuesInitialize(EnumValues[e], e, consts, done) :
                         EnumValues' = [EnumValues EXCEPT ![e] = ev]
                 /\ LoadCatch(<<"std::out_of_range">>)
                 /\ failures' = failures \cup {"enum registration without constant"}
                 /\ UNCHANGED enumDone
            ELSE /\ \E ev \in EnumValuesInitialize(EnumValues[e], e, consts, bound) :
                      EnumValues' = [EnumValues EXCEPT ![e] = ev]
                 /\ enumDone' = enumDone \cup {e}
                 /\ UNCHANGED <<lpc, result, pending, failures>>
    /\ UNCHANGED <<trampVars, envVars, extVars, refVars, pinVars, cbVars, valuePairs, javaFields, conv, raised>>
    /\ UNCHANGED <<_vm, rc, calls, builders, FunctionBindings, FieldBindings, EnumBindings,
                   fnDone, recDone, runtime>>

\* return JNI_VERSION_1_6
EnumsInitialized ==
    /\ lpc = "enums"
    /\ DOMAIN EnumBindings \ enumDone = {}
    /\ result' = JNI_VERSION_1_6
    /\ lpc' = "returned"
    /\ UNCHANGED <<trampVars, envVars, auxVars>>
    /\ UNCHANGED <<_vm, rc, pending, calls, builders, registries, iters, runtime, failures>>

(***************************************************************************)
(* Conversions run by installed trampolines once the load routine is over. *)
(***************************************************************************)
TrampolineInstalled == installed # {} \/ cbInstalled > 0

\* RecordClassJavaType<T>::native_value and java_value: FieldBindings::value[sig].
RecordBindingsLookup(m, s) == Subscript(m, s, <<>>)

RecordConversion(s) ==
    /\ lpc = "returned"
    /\ TrampolineInstalled
    /\ FieldBindings' = RecordBindingsLookup(FieldBindings, s)
    /\ UNCHANGED <<trampVars, envVars, auxVars>>
    /\ UNCHANGED <<lpc, _vm, rc, result, pending, calls, builders, FunctionBindings,
                   EnumBindings, EnumValues, iters, runtime, failures>>

NoConversion == [enum |-> 0, native |-> 0, object |-> <<>>, back |-> 0, threw |-> "nothing"]

\* EnumClassJavaType<T>::java_value: values_to_objects.at(nativeEnumValue)
EnumJavaValue(ev, nv) ==
    IF nv \in DOMAIN ev.values_to_objects THEN ev.values_to_objects[nv] ELSE <<"std::runtime_error">>

\* enum_value_ordinal: the ordinal the runtime reports for a constant of enum e.
EnumOrdinal(e, obj) == IndexOf(javaConsts[e], obj[3]) - 1

\* EnumClassJavaType<T>::native_value: ordinals_to_values.at(ordinal), -1 when it throws.
EnumNativeValue(ev, e, obj) ==
    IF EnumOrdinal(e, obj) \in DOMAIN ev.ordinals_to_values
    THEN ev.ordinals_to_values[EnumOrdinal(e, obj)]
    ELSE -1

(***************************************************************************)
(* A trampoline returns the enumerator nv to managed code and takes the    *)
(* constant it got back as an argument: java_value, then native_value.     *)
(***************************************************************************)
EnumConversion(e, nv) ==
    /\ lpc = "returned" /\ result = JNI_VERSION_1_6
    /\ TrampolineInstalled
    /\ e \in DOMAIN EnumBindings
    /\ LET ev == EnumValues[e]
           obj == EnumJavaValue(ev, nv)
       IN IF obj = <<"std::runtime_error">>
          THEN conv' = [enum |-> e, native |-> nv, object |-> obj, back |-> -1, threw |-> "java_value"]
          ELSE conv' = [enum |-> e, native |-> nv, object |-> obj, back |-> EnumNativeValue(ev, e, obj),
                        threw |-> IF EnumNativeValue(ev, e, obj) = -1 THEN "native_value" ELSE "nothing"]
    /\ UNCHANGED <<loadVars, trampVars, envVars, extVars, refVars, pinVars, cbVars, valuePairs, javaConsts, javaFields, raised>>

NextLoad ==
    \/ LoadBegin
    \/ \E c \in FnClassNames : static_class(c)
    \/ \E c \in FnClassNames : native_class(c)
    \/ \E c \in FnClassNames, m \in BOOLEAN : function(c, "f", m)
    \/ \E s \in RecordSigs : record_class(s)
    \/ \E s \in RecordSigs, n \in FieldNames, g \in FieldSignatures : field(s, n, g)
    \/ \E e \in EnumClassNames : enum_class(e)
    \/ \E e \in EnumClassNames, nv \in NativeEnumValues, n \in EnumConstNames : value(e, nv, n)
    \/ InitializerThrows
    \/ InitializerReturns
    \/ RegisterCallbacks
    \/ RegisterFunctionClass
    \/ FunctionsRegistered
    \/ CheckRecordClass
    \/ FieldsChecked
    \/ InitEnumClass
    \/ EnumsInitialized
    \/ \E s \in RecordSigs : RecordConversion(s)
    \/ \E e \in EnumClassNames, nv \in NativeEnumValues : EnumConversion(e, nv)

(***************************************************************************)
(* Properties of the load routine (checked under SpecLoad).                *)
(***************************************************************************)
LoadReturned == lpc = "returned"
LoadSucceeded == lpc = "returned" /\ result = JNI_VERSION_1_6

\* C1: when the managed class of a function-binding class cannot be resolved,
\* the load routine returns with no native method of any registered class
\* installed, the classes processed before the failing one included.
C1_NothingInstalledAfterUnresolvedClass ==
    (LoadReturned /\ "function class not found" \in failures) => installed = {}

\* C2: the load routine returns the success status only if callback
\* registration, the registration of every function-binding class, every
\* record field check and every enum initialization succeeded; a failure in
\* any of these steps gives a non-success status.
C2_SuccessOnlyWithoutFailure ==
    LoadReturned => (result = JNI_VERSION_1_6 => failures = {})

\* A load that went through every step, with a class of each kind, and succeeded.
C2_Witness ==
    /\ LoadSucceeded
    /\ cbInstalled = NumCallbackAdds + 1
    /\ installed # {}
    /\ recDone # {}
    /\ enumDone # {}

\* Every enum lookup table holds an object for each native value bound to the enum.
EnumTablesPopulated ==
    \A e \in DOMAIN EnumBindings :
        DOMAIN EnumValues[e].values_to_objects = DOMAIN EnumValues[e].bindings

\* C8: no trampoline is installed with the runtime until the load has
\* populated every registry, the enum lookup tables included.
C8_InstalledOnlyAfterPopulation ==
    TrampolineInstalled => (lpc # "initializer" /\ EnumTablesPopulated)

\* C9: after a successful load no conversion inserts into, removes from or
\* modifies any of the registry maps.
C9_RegistriesReadOnlyAfterLoad ==
    [][LoadSucceeded => registries' = registries]_vars

(***************************************************************************)
(* Opaque native-backed objects and the trampolines generated for them.    *)
(* The native object made for managed object o is identified by o.         *)
(***************************************************************************)
NoInvocation == [kind |-> "none", obj |-> 0, called |-> FALSE, afterDestroy |-> FALSE, nullHandle |-> FALSE]
NoLocals == [obj |-> 0, ptr |-> 0, afterDestroy |-> FALSE]

InitTramp ==
    /\ handle = [o \in Objects |-> 0]
    /\ allocated = {}
    /\ heap = [o \in Objects |-> "unallocated"]
    /\ deletes = [o \in Objects |-> 0]
    /\ destroyed = {}
    /\ tpc = [t \in Threads |-> "idle"]
    /\ tlocal = [t \in Threads |-> NoLocals]
    /\ last = NoInvocation

(***************************************************************************)
(* What the native code called by a trampoline may do: return, throw a     *)
(* JavaException holding the managed exception it captured, throw an       *)
(* exception derived from std::exception (possibly while a managed         *)
(* exception raised by an earlier runtime call is still pending), or throw *)
(* a value of any other type.                                              *)
(***************************************************************************)
ManagedError == [class |-> "java.lang.IllegalStateException", message |-> <<"raised in managed code">>]

\* JavaException(env) made while p is pending: ex = ExceptionOccurred(),
\* ExceptionClear(), message = ex.getMessage().
JavaException(p) == [threw |-> "JavaException", what |-> p.message, inner |-> p, pendingAtThrow |-> NoException]

NothingThrown == [threw |-> "nothing", what |-> <<>>, inner |-> NoException, pendingAtThrow |-> NoException]

NativeOutcomes ==
    {NothingThrown,
     JavaException(ManagedError),
     [threw |-> "std::exception", what |-> <<"native failure">>, inner |-> NoException, pendingAtThrow |-> NoException],
     [threw |-> "std::exception", what |-> <<"native failure">>, inner |-> NoException, pendingAtThrow |-> ManagedError],
     [threw |-> "other", what |-> <<>>, inner |-> NoException, pendingAtThrow |-> NoException]}

DisposedError(o) == [threw |-> "std::exception", what |-> <<"has already been disposed of", o>>,
                     inner |-> NoException, pendingAtThrow |-> NoException]

\* exception_handler with the ThrowNew call left out.
exception_handler_silent(p, what) == p

\* exception_handler: ThrowNew(java.lang.Exception, ex.what()) unless an exception is pending.
exception_handler(p, what) == IF ~ExceptionCheck(p) THEN JavaLangException(what) ELSE p

\* A catch clause that reported a JavaException as it reports any std::exception.
ThrowAsGeneric(ex) == JavaLangException(ex.message)

\* env->Throw(ex.innerException()): ex becomes the pending exception.
Throw(ex) == ex

(***************************************************************************)
(* The try/catch block shared by every trampoline: catch (JavaException&)  *)
(* re-throws the inner exception, catch (std::exception&) calls            *)
(* exception_handler, and both return a default-constructed value.         *)
(* Nothing else is caught.                                                 *)
(***************************************************************************)
CatchClauses(thrown) ==
    IF thrown.threw = "nothing"
    THEN [outcome |-> "returned", value |-> "result", pending |-> NoException]
    ELSE IF thrown.threw = "JavaException"
    THEN [outcome |-> "returned", value |-> "default", pending |-> Throw(thrown.inner)]
    ELSE IF thrown.threw = "std::exception"
    THEN [outcome |-> "returned", value |-> "default",
          pending |-> exception_handler(thrown.pendingAtThrow, thrown.what)]
    ELSE [outcome |-> "unwound", value |-> "none", pending |-> thrown.pendingAtThrow]

Completed(kind, o, thrown, called, afterDestroy) ==
    [kind |-> kind, obj |-> o, thrown |-> thrown, called |-> called,
     afterDestroy |-> afterDestroy, handling |-> CatchClauses(thrown), nullHandle |-> FALSE]

\* The trampoline read nullptr from the nativePointer field of object o.
CompletedOnNull(kind, o, thrown, called, afterDestroy) ==
    [Completed(kind, o, thrown, called, afterDestroy) EXCEPT !.nullHandle = TRUE]

\* Adapter::invoke: a static function trampoline.  It touches no shared state, so the
\* managed thread that runs it is not recorded.
StaticInvoke(thrown) ==
    /\ last' = Completed("static", 0, thrown, TRUE, FALSE)
    /\ UNCHANGED <<handle, allocated, heap, deletes, destroyed, tpc, tlocal>>
    /\ UNCHANGED <<loadVars, envVars, auxVars>>

\* CallbackHandler::invoke: the trampoline of a native callback wrapper.
CallbackInvoke(thrown) ==
    /\ last' = Completed("callback", 0, thrown, TRUE, FALSE)
    /\ UNCHANGED <<handle, allocated, heap, deletes, destroyed, tpc, tlocal>>
    /\ UNCHANGED <<loadVars, envVars, auxVars>>

\* throw JavaException(env) after AllocObject returned null
AllocObjectFailed == JavaException(RuntimeThrown("java.lang.OutOfMemoryError"))

(***************************************************************************)
(* CreateObjectAdapter::invoke: new T(args), AllocObject, store the        *)
(* pointer in nativePointer.  allocObject is the answer of AllocObject.    *)
(***************************************************************************)
CreateInvoke(o, thrown, allocObject) ==
    /\ heap[o] = "unallocated"
    /\ o = Min({x \in Objects : heap[x] = "unallocated"})
    /\ IF thrown.threw # "nothing"
       THEN /\ last' = Completed("create", 0, thrown, TRUE, FALSE)
            /\ UNCHANGED <<handle, allocated, heap>>
       ELSE IF ~allocObject
       THEN /\ heap' = [heap EXCEPT ![o] = "live"]
            /\ last' = Completed("create", 0, AllocObjectFailed, TRUE, FALSE)
            /\ UNCHANGED <<handle, allocated>>
       ELSE /\ heap' = [heap EXCEPT ![o] = "live"]
            /\ allocated' = allocated \cup {o}
            /\ handle' = [handle EXCEPT ![o] = o]
            /\ last' = Completed("create", o, thrown, TRUE, FALSE)
    /\ UNCHANGED <<deletes, destroyed, tpc, tlocal>>
    /\ UNCHANGED <<loadVars, envVars, auxVars>>

(***************************************************************************)
(* Adapter::invoke for a function that takes the opaque object o as an     *)
(* argument: NativeClassJavaType::native_value reads nativePointer and     *)
(* returns *ptr without testing ptr.  Forming a reference from nullptr is  *)
(* undefined: the build either faults there or runs the function on the    *)
(* null reference.  The call is one of the invocations of NextSeq.         *)
(***************************************************************************)
NullDereferenceOutcomes == {"fault", "continue"}

Faulted(o, afterDestroy) ==
    [CompletedOnNull("argument", o, NothingThrown, FALSE, afterDestroy)
        EXCEPT !.handling = [outcome |-> "crashed", value |-> "none", pending |-> NoException]]

ArgumentInvoke(o, thrown, ub) ==
    /\ o \in allocated
    /\ last' = IF handle[o] # 0
               THEN Completed("argument", o, thrown, TRUE, o \in destroyed)
               ELSE IF ub = "fault"
               THEN Faulted(o, o \in destroyed)
               ELSE CompletedOnNull("argument", o, thrown, TRUE, o \in destroyed)
    /\ UNCHANGED <<handle, allocated, heap, deletes, destroyed, tpc, tlocal>>
    /\ UNCHANGED <<loadVars, envVars, auxVars>>

(***************************************************************************)
(* MemberAdapter::invoke, in two steps: read nativePointer, then test it   *)
(* and call the member function through it.                                *)
(***************************************************************************)
MemberBegin(t, o) ==
    /\ tpc[t] = "idle"
    /\ o \in allocated
    /\ tpc' = [tpc EXCEPT ![t] = "member"]
    /\ tlocal' = [tlocal EXCEPT ![t] = [obj |-> o, ptr |-> handle[o], afterDestroy |-> o \in destroyed]]
    /\ UNCHANGED <<handle, allocated, heap, deletes, destroyed, last>>
    /\ UNCHANGED <<loadVars, envVars, auxVars>>

\* The member trampoline without its null test.
IsDisposedUntested(ptr) == FALSE

\* if (!ptr)
IsDisposed(ptr) == ptr = 0

MemberCall(t, thrown) ==
    /\ tpc[t] = "member"
    /\ LET l == tlocal[t] IN
       IF IsDisposed(l.ptr)
       THEN /\ thrown = DisposedError(l.obj)
            /\ last' = CompletedOnNull("member", l.obj, thrown, FALSE, l.afterDestroy)
       ELSE /\ thrown \in NativeOutcomes
            /\ last' = Completed("member", l.obj, thrown, TRUE, l.afterDestroy)
    /\ tpc' = [tpc EXCEPT ![t] = "idle"]
    /\ tlocal' = [tlocal EXCEPT ![t] = NoLocals]
    /\ UNCHANGED <<handle, allocated, heap, deletes, destroyed>>
    /\ UNCHANGED <<loadVars, envVars, auxVars>>

(***************************************************************************)
(* DestroyObjectAdapter::invoke, in three steps: read nativePointer,       *)
(* delete ptr, store nullptr in nativePointer.                             *)
(***************************************************************************)
DestroyBegin(t, o) ==
    /\ tpc[t] = "idle"
    /\ o \in allocated
    /\ tpc' = [tpc EXCEPT ![t] = "destroy"]
    /\ tlocal' = [tlocal EXCEPT ![t] = [obj |-> o, ptr |-> handle[o], afterDestroy |-> o \in destroyed]]
    /\ UNCHANGED <<handle, allocated, heap, deletes, destroyed, last>>
    /\ UNCHANGED <<loadVars, envVars, auxVars>>

\* delete ptr (deleting a null pointer does nothing)
DestroyDelete(t) ==
    /\ tpc[t] = "destroy"
    /\ LET n == tlocal[t].ptr IN
       IF n = 0
       THEN UNCHANGED <<heap, deletes>>
       ELSE /\ heap' = [heap EXCEPT ![n] = "deleted"]
            /\ deletes' = [deletes EXCEPT ![n] = @ + 1]
    /\ tpc' = [tpc EXCEPT ![t] = "deleted"]
    /\ UNCHANGED <<handle, allocated, destroyed, tlocal, last>>
    /\ UNCHANGED <<loadVars, envVars, auxVars>>

\* The destructor trampoline leaving the pointer in the field.
HandleLeftInPlace(ptr) == ptr

\* java_set_field_value(env, obj, field, nullptr)
HandleAfterDestroy(ptr) == 0

DestroyStore(t) ==
    /\ tpc[t] = "deleted"
    /\ LET l == tlocal[t] IN
       /\ handle' = [handle EXCEPT ![l.obj] = HandleAfterDestroy(l.ptr)]
       /\ destroyed' = destroyed \cup {l.obj}
       /\ last' = IF l.ptr = 0
                  THEN CompletedOnNull("destroy", l.obj, NothingThrown, FALSE, l.afterDestroy)
                  ELSE Completed("destroy", l.obj, NothingThrown, TRUE, l.afterDestroy)
    /\ tpc' = [tpc EXCEPT ![t] = "idle"]
    /\ tlocal' = [tlocal EXCEPT ![t] = NoLocals]
    /\ UNCHANGED <<allocated, heap, deletes>>
    /\ UNCHANGED <<loadVars, envVars, auxVars>>

NextTramp ==
    \/ \E thrown \in NativeOutcomes : StaticInvoke(thrown)
    \/ \E thrown \in NativeOutcomes : CallbackInvoke(thrown)
    \/ \E o \in Objects, thrown \in NativeOutcomes, a \in BOOLEAN : CreateInvoke(o, thrown, a)
    \/ \E t \in Threads, o \in Objects : MemberBegin(t, o)
    \/ \E t \in Threads, thrown \in NativeOutcomes \cup {DisposedError(o) : o \in Objects} : MemberCall(t, thrown)
    \/ \E t \in Threads, o \in Objects : DestroyBegin(t, o)
    \/ \E t \in Threads : DestroyDelete(t)
    \/ \E t \in Threads : DestroyStore(t)

\* One invocation at a time: a trampoline begins only when no other is running.
AllIdle == \A t \in Threads : tpc[t] = "idle"

NextSeq ==
    \/ \E thrown \in NativeOutcomes : AllIdle /\ StaticInvoke(thrown)
    \/ \E thrown \in NativeOutcomes : AllIdle /\ CallbackInvoke(thrown)
    \/ \E o \in Objects, thrown \in NativeOutcomes, a \in BOOLEAN : AllIdle /\ CreateInvoke(o, thrown, a)
    \/ \E o \in Objects, thrown \in NativeOutcomes, ub \in NullDereferenceOutcomes :
          AllIdle /\ ArgumentInvoke(o, thrown, ub)
    \/ \E t \in Threads, o \in Objects : AllIdle /\ MemberBegin(t, o)
    \/ \E t \in Threads, thrown \in NativeOutcomes \cup {DisposedError(o) : o \in Objects} : MemberCall(t, thrown)
    \/ \E t \in Threads, o \in Objects : AllIdle /\ DestroyBegin(t, o)
    \/ \E t \in Threads : DestroyDelete(t)
    \/ \E t \in Threads : DestroyStore(t)

(***************************************************************************)
(* Threads, the thread-local Environment and shared global references.     *)
(* The environment handle the runtime gives thread t is identified by t.   *)
(* Thread 1 is the thread that ran the load routine (setEnv was called).   *)
(***************************************************************************)
NoRef == [state |-> "none", creatingEnv |-> 0, owners |-> {}]
NoCall == [thread |-> 0, env |-> 0, jvm |-> FALSE, cachedBefore |-> FALSE, attachedBefore |-> FALSE,
           reentered |-> FALSE]

InitEnv ==
    /\ tstate = [t \in Threads |-> IF t = 1 THEN "running" ELSE "new"]
    /\ jvmAttached = [t \in Threads |-> t = 1]
    /\ _env = [t \in Threads |-> IF t = 1 THEN 1 ELSE 0]
    /\ _attached = [t \in Threads |-> FALSE]
    /\ attacher = [t \in Threads |-> IF t = 1 THEN "runtime" ELSE "nobody"]
    /\ detached = {}
    /\ invoked = NoCall
    /\ refs = [g \in Refs |-> NoRef]
    /\ released = {}

\* A failed assertion has not ended the process.
ProcessAlive == lpc # "aborted"

\* A thread starts: a managed thread is attached by the runtime, a native one is not.
ThreadStart(t, managed) ==
    /\ ProcessAlive
    /\ tstate[t] = "new"
    /\ tstate' = [tstate EXCEPT ![t] = "running"]
    /\ jvmAttached' = [jvmAttached EXCEPT ![t] = managed]
    /\ attacher' = [attacher EXCEPT ![t] = IF managed THEN "runtime" ELSE "nobody"]
    /\ UNCHANGED <<_env, _attached, detached, invoked, refs, released>>
    /\ UNCHANGED <<loadVars, trampVars, auxVars>>

(***************************************************************************)
(* Environment::getEnv on thread t.  attachOk is the answer of             *)
(* AttachCurrentThread, version that of GetEnv about JNI_VERSION_1_6.      *)
(* The result is a record of the new _env, _attached and attachment.       *)
(***************************************************************************)
getEnv(t, attachOk, versionOk) ==
    IF _env[t] # 0
    THEN [env |-> _env[t], cached |-> _env[t], attached |-> _attached[t], jvm |-> jvmAttached[t], by |-> attacher[t]]
    ELSE IF ~versionOk
    THEN [env |-> 0, cached |-> 0, attached |-> _attached[t], jvm |-> jvmAttached[t], by |-> attacher[t]]
    ELSE IF jvmAttached[t]
    THEN [env |-> t, cached |-> t, attached |-> _attached[t], jvm |-> TRUE, by |-> attacher[t]]
    ELSE IF attachOk
    THEN [env |-> t, cached |-> t, attached |-> TRUE, jvm |-> TRUE, by |-> "library"]
    ELSE [env |-> 0, cached |-> 0, attached |-> _attached[t], jvm |-> FALSE, by |-> attacher[t]]

\* GlobalObjectRef(env, obj), made inside a trampoline running on thread t.
NewGlobalRef(t, g) ==
    /\ tstate[t] = "running"
    /\ jvmAttached[t]
    /\ refs[g].state = "none"
    /\ g = Min({x \in Refs : refs[x].state = "none"})
    /\ refs' = [refs EXCEPT ![g] = [state |-> "held", creatingEnv |-> t, owners |-> {t}]]
    /\ UNCHANGED <<tstate, jvmAttached, _env, _attached, attacher, detached, invoked, released>>
    /\ UNCHANGED <<loadVars, trampVars, auxVars>>

\* A copy of the shared owner is handed to another running thread.
ShareRef(g, t, u) ==
    /\ refs[g].state = "held"
    /\ t \in refs[g].owners
    /\ u \notin refs[g].owners
    /\ tstate[u] = "running"
    /\ refs' = [refs EXCEPT ![g].owners = @ \cup {u}]
    /\ UNCHANGED <<tstate, jvmAttached, _env, _attached, attacher, detached, invoked, released>>
    /\ UNCHANGED <<loadVars, trampVars, auxVars>>

\* A deleter that captured the environment the reference was created with.
DeleterEnvCaptured(currentEnv, creatingEnv) == creatingEnv

\* The environment the deleter of the shared_ptr uses: this_thread.getEnv().
DeleterEnv(currentEnv, creatingEnv) == currentEnv

(***************************************************************************)
(* Thread t drops its owner.  The last owner runs the deleter, which calls *)
(* getEnv and, if it gets an environment, DeleteGlobalRef through it.      *)
(***************************************************************************)
DropRef(g, t, attachOk, versionOk) ==
    /\ refs[g].state = "held"
    /\ t \in refs[g].owners
    /\ IF refs[g].owners # {t}
       THEN /\ refs' = [refs EXCEPT ![g].owners = @ \ {t}]
            /\ UNCHANGED <<jvmAttached, _env, _attached, attacher, released>>
       ELSE LET r == getEnv(t, attachOk, versionOk)
                e == IF r.env = 0 THEN 0 ELSE DeleterEnv(r.env, refs[g].creatingEnv)
            IN /\ _env' = [_env EXCEPT ![t] = r.cached]
               /\ _attached' = [_attached EXCEPT ![t] = r.attached]
               /\ jvmAttached' = [jvmAttached EXCEPT ![t] = r.jvm]
               /\ attacher' = [attacher EXCEPT ![t] = r.by]
               /\ IF e = 0
                  THEN /\ refs' = [refs EXCEPT ![g] = [state |-> "leaked", creatingEnv |-> @.creatingEnv, owners |-> {}]]
                       /\ UNCHANGED released
                  ELSE /\ refs' = [refs EXCEPT ![g] = [state |-> "released", creatingEnv |-> @.creatingEnv, owners |-> {}]]
                       /\ released' = released \cup
                            {[ref |-> g, thread |-> t, env |-> e, valid |-> e = t /\ r.jvm,
                              creator |-> refs[g].creatingEnv, creatorExited |-> tstate[refs[g].creatingEnv] = "exited",
                              attachedHere |-> r.attached]}
    /\ UNCHANGED <<tstate, detached, invoked>>
    /\ UNCHANGED <<loadVars, trampVars, auxVars>>

(***************************************************************************)
(* Thread t exits, having dropped the owners it held: ~Environment         *)
(* detaches the thread if _env is set and the library attached it.         *)
(***************************************************************************)
DetachesAtExit(env, attached) == env # 0 /\ _vm # NullVM /\ attached

ThreadExit(t) ==
    /\ ProcessAlive
    /\ tstate[t] = "running"
    /\ \A g \in Refs : t \notin refs[g].owners
    /\ tstate' = [tstate EXCEPT ![t] = "exited"]
    /\ jvmAttached' = [jvmAttached EXCEPT ![t] = IF DetachesAtExit(_env[t], _attached[t]) THEN FALSE ELSE @]
    /\ detached' = IF DetachesAtExit(_env[t], _attached[t]) THEN detached \cup {t} ELSE detached
    /\ UNCHANGED <<_env, _attached, attacher, invoked, refs, released>>
    /\ UNCHANGED <<loadVars, trampVars, auxVars>>

NextEnv ==
    \/ \E t \in Threads, managed \in BOOLEAN : ThreadStart(t, managed)
    \/ \E t \in Threads, g \in Refs : NewGlobalRef(t, g)
    \/ \E g \in Refs, t \in Threads, u \in Threads : ShareRef(g, t, u)
    \/ \E g \in Refs, t \in Threads, a \in BOOLEAN, v \in BOOLEAN : DropRef(g, t, a, v)
    \/ \E t \in Threads : ThreadExit(t)

\* A lambda that used the environment captured when the function object was made.
InvokeEnvCaptured(currentEnv, creatingEnv) == creatingEnv

\* The environment the lambda of JavaFunctionBase::native_value calls through:
\* this_thread.getEnv(), not the env the function object was created with.
InvokeEnv(currentEnv, creatingEnv) == currentEnv

(***************************************************************************)
(* Thread t invokes a native function that wraps a managed callable; the   *)
(* function object was made by native_value on the managed thread c.  With *)
(* no environment the lambda returns a default value without calling.      *)
(***************************************************************************)
JavaFunctionInvoke(t, c, attachOk, versionOk) ==
    /\ ProcessAlive
    /\ tstate[t] = "running"
    /\ attacher[c] = "runtime" /\ tstate[c] # "new"
    /\ _vm # NullVM                       \* assert(_vm != nullptr) in Environment::getEnv
    /\ LET r == getEnv(t, attachOk, versionOk)
           e == IF r.env = 0 THEN 0 ELSE InvokeEnv(r.env, c)
       IN /\ _env' = [_env EXCEPT ![t] = r.cached]
          /\ _attached' = [_attached EXCEPT ![t] = r.attached]
          /\ jvmAttached' = [jvmAttached EXCEPT ![t] = r.jvm]
          /\ attacher' = [attacher EXCEPT ![t] = r.by]
          /\ invoked' = [thread |-> t, env |-> e, jvm |-> r.jvm, cachedBefore |-> _env[t] # 0,
                         attachedBefore |-> jvmAttached[t], reentered |-> e # 0]
    /\ UNCHANGED <<tstate, detached, refs, released>>
    /\ UNCHANGED <<loadVars, trampVars, auxVars>>

(***************************************************************************)
(* The module lifecycle: JNI_OnLoad and JNI_OnUnload as the runtime calls  *)
(* them.  The runtime loads a library it does not hold as loaded (never    *)
(* loaded, unloaded, or one whose load routine returned a failure) and     *)
(* unloads one it holds as loaded.  ndebug tells whether the build         *)
(* compiles the assertions out; a failed assertion aborts the process.     *)
(***************************************************************************)
RuntimeHandles == {TheVM}

NotHeldAsLoaded == lpc = "unloaded" \/ (lpc = "returned" /\ result # JNI_VERSION_1_6)

\* java_initialization_impl up to the try block: GetEnv, Environment::load, setEnv.
LoadEnter(t, vm, getEnvRc, ndebug) ==
    /\ NotHeldAsLoaded
    /\ tstate[t] = "running" /\ jvmAttached[t] /\ attacher[t] = "runtime"
    /\ IF getEnvRc # JNI_OK
       THEN /\ rc' = getEnvRc
            /\ result' = getEnvRc
            /\ lpc' = "returned"
            /\ UNCHANGED <<_vm, _env>>
       ELSE IF _vm # NullVM /\ ~ndebug
       THEN /\ lpc' = "aborted"           \* assert(_vm == nullptr) fails
            /\ rc' = getEnvRc
            /\ UNCHANGED <<_vm, result, _env>>
       ELSE /\ _vm' = vm
            /\ _env' = [_env EXCEPT ![t] = t]
            /\ rc' = getEnvRc
            /\ result' = "none"
            /\ lpc' = "initializer"
    /\ UNCHANGED <<pending, calls, builders, registries, iters, runtime, failures>>
    /\ UNCHANGED <<tstate, jvmAttached, _attached, attacher, detached, invoked, refs, released>>
    /\ UNCHANGED <<trampVars, auxVars>>

(***************************************************************************)
(* The try block of the load routine, which SpecLoad takes step by step,   *)
(* taken in one step: it returns JNI_VERSION_1_6 or a failure status and   *)
(* touches neither Environment::_vm nor any thread's Environment.          *)
(***************************************************************************)
LoadLeave(status) ==
    /\ lpc = "initializer"
    /\ result' = status
    /\ lpc' = "returned"
    /\ UNCHANGED <<_vm, rc, pending, calls, builders, registries, iters, runtime, failures>>
    /\ UNCHANGED <<trampVars, envVars, auxVars>>

\* java_termination_impl: Environment::unload(vm).
java_termination_impl(vm, ndebug) ==
    /\ lpc = "returned" /\ result = JNI_VERSION_1_6
    /\ IF _vm # vm /\ ~ndebug
       THEN /\ lpc' = "aborted"           \* assert(_vm == vm) fails
            /\ UNCHANGED <<_vm, result>>
       ELSE /\ _vm' = NullVM
            /\ result' = "none"
            /\ lpc' = "unloaded"
    /\ UNCHANGED <<rc, pending, calls, builders, registries, iters, runtime, failures>>
    /\ UNCHANGED <<trampVars, envVars, auxVars>>

NextLife ==
    \/ \E t \in Threads, vm \in RuntimeHandles, r \in {JNI_OK, JNI_EVERSION}, ndebug \in BOOLEAN :
          LoadEnter(t, vm, r, ndebug)
    \/ \E status \in {JNI_VERSION_1_6, JNI_ERR} : LoadLeave(status)
    \/ \E vm \in RuntimeHandles, ndebug \in BOOLEAN : java_termination_impl(vm, ndebug)
    \/ \E t \in Threads, managed \in BOOLEAN : ThreadStart(t, managed)
    \/ \E t \in Threads, c \in Threads, a \in BOOLEAN, v \in BOOLEAN : JavaFunctionInvoke(t, c, a, v)
    \/ \E t \in Threads : ThreadExit(t)

\* Before the first load: the loading thread is a managed thread with no cached env.
InitEnvUnloaded ==
    /\ tstate = [t \in Threads |-> IF t = 1 THEN "running" ELSE "new"]
    /\ jvmAttached = [t \in Threads |-> t = 1]
    /\ _env = [t \in Threads |-> 0]
    /\ _attached = [t \in Threads |-> FALSE]
    /\ attacher = [t \in Threads |-> IF t = 1 THEN "runtime" ELSE "nobody"]
    /\ detached = {}
    /\ invoked = NoCall
    /\ refs = [g \in Refs |-> NoRef]
    /\ released = {}

(***************************************************************************)
(* LocalObjectRef and LocalClassRef: scoped owners of a local reference.   *)
(* Local reference 0 is nullptr.                                           *)
(***************************************************************************)
NoWrapper == [state |-> "none", _ref |-> 0, movedFrom |-> FALSE]
NoLocal == [state |-> "unacquired", deletes |-> 0]

InitRef ==
    /\ wrappers = [w \in Wrappers |-> NoWrapper]
    /\ locals = [r \in LocalRefs |-> NoLocal]

(***************************************************************************)
(* LocalObjectRef(env, obj), LocalClassRef(env, name, std::nothrow) and    *)
(* LocalClassRef(env, obj): the wrapper takes the reference a runtime call *)
(* has just returned, which is nullptr when that call failed.              *)
(***************************************************************************)
WrapperConstruct(w, r, returned) ==
    /\ wrappers[w].state = "none"
    /\ w = Min({x \in Wrappers : wrappers[x].state = "none"})
    /\ locals[r].state = "unacquired"
    /\ r = Min({x \in LocalRefs : locals[x].state = "unacquired"})
    /\ IF returned
       THEN /\ wrappers' = [wrappers EXCEPT ![w] = [state |-> "live", _ref |-> r, movedFrom |-> FALSE]]
            /\ locals' = [locals EXCEPT ![r].state = "acquired"]
       ELSE /\ wrappers' = [wrappers EXCEPT ![w] = [state |-> "live", _ref |-> 0, movedFrom |-> FALSE]]
            /\ UNCHANGED locals
    /\ UNCHANGED <<loadVars, trampVars, envVars, extVars, declVars, pinVars, cbVars>>

\* A move constructor that copied the reference and left the source as it was.
MovedFromKept(ref) == ref

\* op._ref = nullptr in the move constructors
MovedFrom(ref) == 0

\* LocalObjectRef(LocalObjectRef&& op) and LocalClassRef(LocalClassRef&& op).
WrapperMove(w, op) ==
    /\ wrappers[w].state = "none"
    /\ w = Min({x \in Wrappers : wrappers[x].state = "none"})
    /\ wrappers[op].state = "live"
    /\ wrappers' = [wrappers EXCEPT ![w] = [state |-> "live", _ref |-> wrappers[op]._ref, movedFrom |-> FALSE],
                                    ![op] = [state |-> "live", _ref |-> MovedFrom(wrappers[op]._ref), movedFrom |-> TRUE]]
    /\ UNCHANGED locals
    /\ UNCHANGED <<loadVars, trampVars, envVars, extVars, declVars, pinVars, cbVars>>

\* ~LocalObjectRef and ~LocalClassRef, at scope exit: DeleteLocalRef unless _ref is nullptr.
WrapperDestroy(w) ==
    /\ wrappers[w].state = "live"
    /\ LET r == wrappers[w]._ref IN
       IF r # 0
       THEN locals' = [locals EXCEPT ![r] = [state |-> "released", deletes |-> @.deletes + 1]]
       ELSE UNCHANGED locals
    /\ wrappers' = [wrappers EXCEPT ![w].state = "gone"]
    /\ UNCHANGED <<loadVars, trampVars, envVars, extVars, declVars, pinVars, cbVars>>

NextRef ==
    \/ \E w \in Wrappers, r \in LocalRefs, returned \in BOOLEAN : WrapperConstruct(w, r, returned)
    \/ \E w \in Wrappers, op \in Wrappers : WrapperMove(w, op)
    \/ \E w \in Wrappers : WrapperDestroy(w)

(***************************************************************************)
(* The state after a load that registered one native class and succeeded;  *)
(* trampolines run, and threads use the Environment, from here.            *)
(***************************************************************************)
InitLoaded ==
    /\ lpc = "returned"
    /\ _vm = TheVM
    /\ rc = JNI_OK
    /\ result = JNI_VERSION_1_6
    /\ pending = NoException
    /\ calls = 1
    /\ builders = {<<"native", 1>>}
    /\ FunctionBindings = Emplace(EmptyMap, 1, <<CloseBinding>>)
    /\ FieldBindings = EmptyMap
    /\ EnumBindings = EmptyMap
    /\ EnumValues = [e \in EnumClassNames |-> EmptyEnumValues]
    /\ fnDone = {1}
    /\ recDone = {}
    /\ enumDone = {}
    /\ installed = {1}
    /\ cbInstalled = NumCallbackAdds + 1
    /\ failures = {}

InitEnumAux ==
    /\ valuePairs = [e \in EnumClassNames |-> {}]
    /\ javaConsts = [e \in EnumClassNames |-> <<>>]
    /\ javaFields = EmptyMap
    /\ conv = NoConversion
    /\ raised = NoRegistration

(***************************************************************************)
(* Adapter::invoke for a function whose parameters include views: every    *)
(* argument is converted by native_value inside the call expression, the   *)
(* views are temporaries of that expression and are destroyed when the     *)
(* native function has returned or thrown, and the result is converted     *)
(* afterwards.  The order in which the arguments of a call are evaluated   *)
(* is unspecified, so the build picks it.                                  *)
(***************************************************************************)
ArgKinds == {"array_view", "string", "int"}
Signatures == UNION {[1..n -> ArgKinds] : n \in 1..MaxArgs}
EvaluationOrders == {"left-to-right", "right-to-left"}
ArrayLengths == {0, 1}

InitPin ==
    /\ vpc = "idle"
    /\ argTypes = <<>>
    /\ order = "left-to-right"
    /\ evaluated = {}
    /\ temporaries = <<>>
    /\ funcThrew = FALSE
    /\ critical = {}

\* Between GetPrimitiveArrayCritical and ReleasePrimitiveArrayCritical of some view.
InCritical(temps) == \E i \in 1..Len(temps) : temps[i].pinned

\* The thread calls the runtime functions named.
RuntimeCalls(crit, temps, names) == IF InCritical(temps) THEN crit \cup names ELSE crit

AdapterInvoke(sig, ord) ==
    /\ vpc = "idle"
    /\ vpc' = "args"
    /\ argTypes' = sig
    /\ order' = ord
    /\ evaluated' = {}
    /\ temporaries' = <<>>
    /\ funcThrew' = FALSE
    /\ critical' = {}
    /\ UNCHANGED <<loadVars, trampVars, envVars, extVars, refVars, declVars, cbVars>>

NextArg ==
    LET rest == (1..Len(argTypes)) \ evaluated
    IN  IF order = "left-to-right"
        THEN CHOOSE i \in rest : \A j \in rest : i <= j
        ELSE CHOOSE i \in rest : \A j \in rest : i >= j

\* arg_type_t<Args>::native_value(env, args) for the next argument; len is
\* the length of the array or string passed.
native_value(len) ==
    /\ vpc = "args"
    /\ LET i == NextArg
           kind == argTypes[i]
       IN  /\ evaluated' = evaluated \cup {i}
           /\ vpc' = IF evaluated' = 1..Len(argTypes) THEN "func" ELSE "args"
           /\ IF kind = "array_view"
              THEN /\ critical' = RuntimeCalls(critical, temporaries, {"GetArrayLength"})
                   /\ temporaries' = Append(temporaries, [arg |-> i, pinned |-> len > 0])
              ELSE IF kind = "string"
              THEN /\ critical' = RuntimeCalls(critical, temporaries,
                                       IF len > 0 THEN {"GetStringUTFLength", "GetStringUTFRegion"}
                                                  ELSE {"GetStringUTFLength"})
                   /\ UNCHANGED temporaries
              ELSE UNCHANGED <<critical, temporaries>>
    /\ UNCHANGED <<argTypes, order, funcThrew>>
    /\ UNCHANGED <<loadVars, trampVars, envVars, extVars, refVars, declVars, cbVars>>

\* The native function runs with the converted arguments; output tells
\* whether it writes to JAVA_OUTPUT, as pass_array_view does.
func(output, thrown) ==
    /\ vpc = "func"
    /\ vpc' = "temporaries"
    /\ funcThrew' = thrown
    /\ critical' = IF output
                   THEN RuntimeCalls(critical, temporaries, {"FindClass", "NewStringUTF", "CallVoidMethod"})
                   ELSE critical
    /\ UNCHANGED <<argTypes, order, evaluated, temporaries>>
    /\ UNCHANGED <<loadVars, trampVars, envVars, extVars, refVars, declVars, cbVars>>

\* ~wrapped_array_view() of the latest view still alive
ViewDestroy ==
    /\ vpc = "temporaries"
    /\ temporaries # <<>>
    /\ temporaries' = SubSeq(temporaries, 1, Len(temporaries) - 1)
    /\ UNCHANGED <<vpc, argTypes, order, evaluated, funcThrew, critical>>
    /\ UNCHANGED <<loadVars, trampVars, envVars, extVars, refVars, declVars, cbVars>>

\* java_value of the result, or the catch clause when the function threw
AdapterReturn ==
    /\ vpc = "temporaries"
    /\ temporaries = <<>>
    /\ vpc' = "idle"
    /\ critical' = RuntimeCalls(critical, temporaries,
                                IF funcThrew THEN {"ExceptionCheck", "FindClass", "ThrowNew"}
                                             ELSE {"NewIntArray", "SetIntArrayRegion"})
    /\ UNCHANGED <<argTypes, order, evaluated, temporaries, funcThrew>>
    /\ UNCHANGED <<loadVars, trampVars, envVars, extVars, refVars, declVars, cbVars>>

NextView ==
    \/ \E sig \in Signatures, ord \in EvaluationOrders : AdapterInvoke(sig, ord)
    \/ \E len \in ArrayLengths : native_value(len)
    \/ \E output \in BOOLEAN, thrown \in BOOLEAN : func(output, thrown)
    \/ ViewDestroy
    \/ AdapterReturn

(***************************************************************************)
(* Native callback objects: java_value of a function type allocates a      *)
(* ForwardingCallback and constructs the managed wrapper around its        *)
(* address; NativeCallback registers a Deallocator with the Cleaner, which *)
(* runs it at most once, at close() or when the wrapper has become         *)
(* unreachable.                                                            *)
(***************************************************************************)
Callbacks == 1..MaxCallbacks

NoCallback == [heap |-> "none", wrapper |-> "none", cleaned |-> FALSE, deallocs |-> 0, by |-> "nobody",
               applied |-> FALSE, appliedFreed |-> FALSE]

InitCallback == callbacks = [k \in Callbacks |-> NoCallback]

\* BaseCallback::deallocate: delete reinterpret_cast<BaseCallback*>(ptr)
deallocate(cb, who) == [cb EXCEPT !.heap = "freed", !.deallocs = @ + 1, !.by = who]

\* Cleaner.Cleanable.clean(): runs the registered Deallocator unless it has run.
clean(cb, who) == IF cb.cleaned THEN cb ELSE [deallocate(cb, who) EXCEPT !.cleaned = TRUE]

\* JavaFunctionBase::java_value: new ForwardingCallback, then NewObject; a
\* failed NewObject throws JavaException and nothing keeps the address.
FunctionJavaValue(k, newObjectOk) ==
    /\ callbacks[k].heap = "none"
    /\ \A j \in Callbacks : j < k => callbacks[j].heap # "none"
    /\ callbacks' = [callbacks EXCEPT ![k] =
            [NoCallback EXCEPT !.heap = "allocated",
                               !.wrapper = IF newObjectOk THEN "reachable" ELSE "none"]]
    /\ UNCHANGED <<loadVars, trampVars, envVars, extVars, refVars, declVars, pinVars>>

\* NativeCallback.close(), which managed code may call any number of times
close(k) ==
    /\ callbacks[k].wrapper = "reachable"
    /\ callbacks' = [callbacks EXCEPT ![k] = clean(@, "close")]
    /\ UNCHANGED <<loadVars, trampVars, envVars, extVars, refVars, declVars, pinVars>>

\* The wrapper becomes phantom reachable and the Cleaner runs its Cleanable.
Collect(k) ==
    /\ callbacks[k].wrapper = "reachable"
    /\ callbacks' = [callbacks EXCEPT ![k] = [clean(@, "cleaner") EXCEPT !.wrapper = "collected"]]
    /\ UNCHANGED <<loadVars, trampVars, envVars, extVars, refVars, declVars, pinVars>>

\* The functional method of the wrapper (apply, test, accept), a native
\* method bound to CallbackHandler::invoke: it reads nativePointer, which is
\* final and keeps the address it was constructed with, and calls
\* ptr->invoke(env, arg).
CallbackApply(k) ==
    /\ callbacks[k].wrapper = "reachable"
    /\ callbacks' = [callbacks EXCEPT ![k].applied = TRUE,
                                      ![k].appliedFreed = @ \/ callbacks[k].heap = "freed"]
    /\ UNCHANGED <<loadVars, trampVars, envVars, refVars, declVars, pinVars, extVars>>

NextCallback ==
    \/ \E k \in Callbacks, newObjectOk \in BOOLEAN : FunctionJavaValue(k, newObjectOk)
    \/ \E k \in Callbacks : CallbackApply(k)
    \/ \E k \in Callbacks : close(k)
    \/ \E k \in Callbacks : Collect(k)

(***************************************************************************)
(* Acquiring a class, a method or a field inside native code that a        *)
(* trampoline called: LocalClassRef(env, name), getMethod, getField.  A    *)
(* failed lookup leaves an exception pending in the runtime and the        *)
(* wrapper throws JavaException(env), which native code may catch.         *)
(***************************************************************************)
AcquisitionKinds == {"class", "method", "field"}

NotFound(kind) ==
    RuntimeThrown(IF kind = "class" THEN "java.lang.NoClassDefFoundError"
                  ELSE IF kind = "method" THEN "java.lang.NoSuchMethodError"
                  ELSE "java.lang.NoSuchFieldError")

NotReturned == [outcome |-> "none", value |-> "none", pending |-> NoException]

Caught == {k \in AcquisitionKinds : lookups[k] = "caught"}

InitAcq ==
    /\ apc = "idle"
    /\ jpending = NoException
    /\ inflight = NothingThrown
    /\ lookups = [k \in AcquisitionKinds |-> "untried"]
    /\ areturn = NotReturned

\* A JavaException constructor that left the pending exception in place.
ExceptionClearSkipped(p) == p

\* JNIEnv::ExceptionClear
ExceptionClear(p) == NoException

\* The runtime calls the native method; none of its exceptions is pending.
AcqInvoke ==
    /\ apc = "idle"
    /\ apc' = "native"
    /\ jpending' = NoException
    /\ inflight' = NothingThrown
    /\ lookups' = [k \in AcquisitionKinds |-> "untried"]
    /\ areturn' = NotReturned
    /\ UNCHANGED <<loadVars, trampVars, envVars, refVars, declVars, pinVars, cbVars, cvVars>>

\* FindClass, GetMethodID or GetFieldID; found is the runtime's answer.
Lookup(kind, found) ==
    /\ apc = "native"
    /\ lookups[kind] = "untried"
    /\ IF found
       THEN /\ lookups' = [lookups EXCEPT ![kind] = "found"]
            /\ UNCHANGED <<apc, jpending>>
       ELSE /\ apc' = "failed"
            /\ jpending' = NotFound(kind)
            /\ UNCHANGED lookups
    /\ UNCHANGED <<inflight, areturn>>
    /\ UNCHANGED <<loadVars, trampVars, envVars, refVars, declVars, pinVars, cbVars, cvVars>>

\* if (_ref == nullptr) throw JavaException(env)
ThrowJavaException ==
    /\ apc = "failed"
    /\ apc' = "propagating"
    /\ inflight' = JavaException(jpending)
    /\ jpending' = IF ExceptionCheck(jpending) THEN ExceptionClear(jpending) ELSE jpending
    /\ UNCHANGED <<lookups, areturn>>
    /\ UNCHANGED <<loadVars, trampVars, envVars, refVars, declVars, pinVars, cbVars, cvVars>>

\* catch (JavaException&) in the native code the trampoline called
NativeCatch ==
    /\ apc = "propagating"
    /\ apc' = "native"
    /\ lookups' = [k \in AcquisitionKinds |->
                       IF NotFound(k) = inflight.inner THEN "caught" ELSE lookups[k]]
    /\ inflight' = NothingThrown
    /\ UNCHANGED <<jpending, areturn>>
    /\ UNCHANGED <<loadVars, trampVars, envVars, refVars, declVars, pinVars, cbVars, cvVars>>

\* The native code returns, or its JavaException reaches the trampoline's
\* catch clauses; the trampoline returns to the runtime.
AcqReturn ==
    /\ apc \in {"native", "propagating"}
    /\ apc' = "idle"
    /\ LET h == CatchClauses(inflight)
       IN  /\ areturn' = [h EXCEPT !.pending = IF inflight.threw = "nothing" THEN jpending ELSE h.pending]
           /\ jpending' = areturn'.pending
    /\ UNCHANGED <<inflight, lookups>>
    /\ UNCHANGED <<loadVars, trampVars, envVars, refVars, declVars, pinVars, cbVars, cvVars>>

NextAcq ==
    \/ AcqInvoke
    \/ \E kind \in AcquisitionKinds, found \in BOOLEAN : Lookup(kind, found)
    \/ ThrowJavaException
    \/ NativeCatch
    \/ AcqReturn

(***************************************************************************)
(* The converters of the marshalling catalog: java_value and native_value  *)
(* of the primitive types, std::string, std::vector<int32_t>, a record     *)
(* whose two int fields are both bound, and std::optional of each.  A      *)
(* native string is its sequence of bytes (0 is the NUL byte), an optional *)
(* is a sequence of at most one value, and a managed value is a record     *)
(* telling whether it is the null reference, its class and its content.    *)
(***************************************************************************)
TypeKinds == {"bool", "int", "string", "int[]", "record"}
Types == [kind : TypeKinds, optional : BOOLEAN]
Ints == {-1, 0, 1}
Bytes == {0, 97}

SeqsUpTo(S, n) == UNION {[1..k -> S] : k \in 0..n}

BaseValues(kind) ==
    IF kind = "bool" THEN BOOLEAN
    ELSE IF kind = "int" THEN Ints
    ELSE IF kind = "string" THEN SeqsUpTo(Bytes, MaxLen)
    ELSE IF kind = "int[]" THEN SeqsUpTo(Ints, MaxLen)
    ELSE [x : Ints, y : Ints]

NativeValues(T) ==
    IF T.optional THEN {<<>>} \cup {<<v>> : v \in BaseValues(T.kind)} ELSE BaseValues(T.kind)

\* T() of the element type
DefaultValue(kind) ==
    IF kind = "bool" THEN FALSE
    ELSE IF kind = "int" THEN 0
    ELSE IF kind \in {"string", "int[]"} THEN <<>>
    ELSE [x |-> 0, y |-> 0]

JNull == [null |-> TRUE, class |-> "null", data |-> <<>>]
JValue(class, data) == [null |-> FALSE, class |-> class, data |-> data]

\* The bytes of a C string: those before the first NUL.
RECURSIVE c_str(_)
c_str(bytes) ==
    IF bytes = <<>> \/ Head(bytes) = 0 THEN <<>> ELSE <<Head(bytes)>> \o c_str(Tail(bytes))

\* java_value of the non-optional types; boxed tells whether the value is
\* an element of an optional, whose primitives travel as boxed objects.
BaseJavaValue(kind, boxed, v) ==
    IF kind = "bool" THEN JValue(IF boxed THEN "java.lang.Boolean" ELSE "jboolean", v)
    ELSE IF kind = "int" THEN JValue(IF boxed THEN "java.lang.Integer" ELSE "jint", v)
    ELSE IF kind = "string" THEN JValue("java.lang.String", c_str(v))
    ELSE IF kind = "int[]" THEN JValue("int[]", [i \in 1..Len(v) |-> v[i]])
    ELSE JValue("Record", [x |-> v.x, y |-> v.y])

\* native_value of the non-optional types
BaseNativeValue(kind, j) ==
    IF kind = "record" THEN [DefaultValue(kind) EXCEPT !.x = j.data.x, !.y = j.data.y]
    ELSE IF kind = "int[]" THEN [i \in 1..Len(j.data) |-> j.data[i]]
    ELSE j.data

\* A native_value that made an optional holding a default value out of null.
FromNullDefault(kind) == <<DefaultValue(kind)>>

\* if (javaOptional == nullptr) return std::nullopt
FromNull(kind) == <<>>

java_value(T, v) ==
    IF ~T.optional THEN BaseJavaValue(T.kind, FALSE, v)
    ELSE IF v = <<>> THEN JNull
    ELSE BaseJavaValue(T.kind, TRUE, v[1])

to_native_value(T, j) ==
    IF ~T.optional THEN BaseNativeValue(T.kind, j)
    ELSE IF j.null THEN FromNull(T.kind)
    ELSE <<BaseNativeValue(T.kind, j)>>

NoType == [kind |-> "none", optional |-> FALSE]
NoRoundTrip == [type |-> NoType, native |-> <<>>, java |-> JNull, back |-> <<>>]
NoFromJava == [type |-> NoType, java |-> JNull, native |-> <<>>]

InitConv ==
    /\ rt = NoRoundTrip
    /\ fj = NoFromJava

\* A trampoline returns v and takes the managed value back as an argument.
RoundTrip(T, v) ==
    /\ rt' = [type |-> T, native |-> v, java |-> java_value(T, v),
              back |-> to_native_value(T, java_value(T, v))]
    /\ UNCHANGED fj
    /\ UNCHANGED <<loadVars, trampVars, envVars, refVars, declVars, pinVars, cbVars, acqVars>>

\* A trampoline takes an optional argument that managed code made.
FromJava(T, isNull, v) ==
    /\ T.optional
    /\ LET j == IF isNull THEN JNull ELSE BaseJavaValue(T.kind, TRUE, v)
       IN  fj' = [type |-> T, java |-> j, native |-> to_native_value(T, j)]
    /\ UNCHANGED rt
    /\ UNCHANGED <<loadVars, trampVars, envVars, refVars, declVars, pinVars, cbVars, acqVars>>

NextConv ==
    \/ \E T \in Types : \E v \in NativeValues(T) : RoundTrip(T, v)
    \/ \E T \in Types, isNull \in BOOLEAN : \E v \in BaseValues(T.kind) : FromJava(T, isNull, v)

InitAux == InitRef /\ InitEnumAux /\ InitPin /\ InitCallback /\ InitAcq /\ InitConv

Init == InitLoad /\ InitTramp /\ InitEnv /\ InitAux
InitRunning == InitLoaded /\ InitTramp /\ InitEnv /\ InitAux

SpecLoad == Init /\ [][NextLoad]_vars
SpecTramp == InitRunning /\ [][NextTramp]_vars
SpecSeq == InitRunning /\ [][NextSeq]_vars
SpecEnv == InitRunning /\ [][NextEnv]_vars

InitLife == InitLoad /\ InitTramp /\ InitEnvUnloaded /\ InitAux
SpecLife == InitLife /\ [][NextLife]_vars

SpecRef == InitRunning /\ [][NextRef]_vars
SpecView == InitRunning /\ [][NextView]_vars
SpecCallback == InitRunning /\ [][NextCallback]_vars
SpecAcq == InitRunning /\ [][NextAcq]_vars
SpecConv == InitRunning /\ [][NextConv]_vars

\* The state trampolines start from is one the load routine reaches.
LoadedStateNotReached == ~InitLoaded

(***************************************************************************)
(* Properties of the trampolines (checked under SpecTramp and SpecSeq).    *)
(***************************************************************************)
SomeCompleted == last.kind # "none"

\* C3: a member trampoline invoked on an object after the destructor
\* trampoline has completed on it raises the logic error about a disposed
\* object and does not call the native member function.
C3_MemberAfterDestroyRaises ==
    (last.kind = "member" /\ last.afterDestroy) =>
        /\ ~last.called
        /\ last.thrown = DisposedError(last.obj)
        /\ last.handling.outcome = "returned"
        /\ last.handling.pending = JavaLangException(DisposedError(last.obj).what)

C3_Witness == last.kind = "member" /\ last.afterDestroy /\ ~last.called

\* C4: every trampoline returns to the managed caller normally, whatever
\* exception the native call raised; no native exception unwinds out of it.
C4_TrampolineAlwaysReturns ==
    SomeCompleted => last.handling.outcome = "returned"

\* C5: when the native call raises an exception of an unrecognized type, the
\* trampoline reports an error to the runtime and returns a default value.
C5_UnrecognizedExceptionReported ==
    (SomeCompleted /\ last.thrown.threw = "other") =>
        /\ last.handling.outcome = "returned"
        /\ last.handling.value = "default"
        /\ ExceptionCheck(last.handling.pending)

StdExceptionThrown == SomeCompleted /\ last.thrown.threw = "std::exception"

C7_DeletedAtMostOnce ==
    \A o \in Objects :
        /\ deletes[o] <= 1
        /\ (o \in destroyed /\ AllIdle) => (handle[o] = 0 /\ heap[o] = "deleted" /\ deletes[o] = 1)

\* A destructor trampoline has completed on an object on which an earlier one had completed.
C7_Witness ==
    /\ last.kind = "destroy"
    /\ last.afterDestroy
    /\ AllIdle
    /\ deletes[last.obj] = 1
    /\ handle[last.obj] = 0

(***************************************************************************)
(* Properties of the Environment (checked under SpecEnv).                  *)
(***************************************************************************)
\* C10: every DeleteGlobalRef is issued through an environment that is valid
\* for the thread performing the release, whichever thread drops the last
\* owner, also after the thread that created the reference has exited.
C10_ReleaseThroughValidEnv ==
    \A r \in released : r.valid /\ r.env = r.thread

\* A release by a thread other than the creator, which has exited, on a
\* thread the library had to attach first.
C10_Witness ==
    \E r \in released : r.thread # r.creator /\ r.creatorExited /\ r.attachedHere

\* C11: when a thread's Environment is torn down, the library detaches the
\* thread from the runtime if and only if the library itself attached it; a
\* thread attached by other code is never detached by the library.
C11_DetachIffLibraryAttached ==
    \A t \in Threads :
        /\ tstate[t] = "exited" => (t \in detached <=> attacher[t] = "library")
        /\ t \in detached => attacher[t] # "runtime"

(***************************************************************************)
(* The lifecycle state of the module, as the stored handle and the         *)
(* position of the load routine give it; a load that returned a failure    *)
(* status counts as back in Unloaded.                                      *)
(***************************************************************************)
Lifecycle ==
    IF lpc = "unloaded" THEN "Unloaded"
    ELSE IF lpc = "initializer" THEN "Loading"
    ELSE IF lpc = "returned" THEN (IF result = JNI_VERSION_1_6 THEN "Loaded" ELSE "Unloaded")
    ELSE "Aborted"

\* Unloading is the inside of java_termination_impl, which is one step here.
LifecycleTransitions ==
    {<<"Unloaded", "Unloaded">>, <<"Unloaded", "Loading">>, <<"Loading", "Loading">>,
     <<"Loading", "Loaded">>, <<"Loading", "Unloaded">>, <<"Loaded", "Loaded">>,
     <<"Loaded", "Unloaded">>}

\* C13: the module lifecycle only moves along Unloaded -> Loading -> Loaded ->
\* Unloading -> Unloaded; a load never begins while a runtime handle is
\* stored, and the stored handle is released only by an unload of the loaded
\* module that was passed the stored handle.
C13_LifecycleTransitions ==
    [][/\ <<Lifecycle, Lifecycle'>> \in LifecycleTransitions
       /\ (Lifecycle = "Unloaded" /\ Lifecycle' \in {"Loading", "Aborted"}) => _vm = NullVM
       /\ (_vm # NullVM /\ _vm' = NullVM) => (Lifecycle = "Loaded" /\ _vm \in RuntimeHandles)]_vars

(***************************************************************************)
(* Properties of the scoped wrappers (checked under SpecRef).              *)
(***************************************************************************)
Holders(r) == {w \in Wrappers : wrappers[w].state = "live" /\ wrappers[w]._ref = r}

C14_EnumCountsMatch ==
    LoadSucceeded =>
        \A e \in DOMAIN EnumBindings : Len(javaConsts[e]) = Cardinality(valuePairs[e])

\* C15: after a successful load, converting a registered native enumerator to
\* its managed constant and that constant back yields the same enumerator.
C15_EnumRoundTrip ==
    (conv.enum # 0 /\ \E n \in EnumConstNames : <<conv.native, n>> \in valuePairs[conv.enum]) =>
        (conv.threw = "nothing" /\ conv.back = conv.native)

(***************************************************************************)
(* Properties of record bindings (checked under SpecLoad).                 *)
(***************************************************************************)
\* The load found the managed class of record s and looked its fields up.
FieldsLookedUp(s) == s \in DOMAIN javaFields

MissingFields(s) ==
    {i \in 1..Len(FieldBindings[s]) :
        <<FieldBindings[s][i].name, FieldBindings[s][i].signature>> \notin javaFields[s]}

RegisteredAgain == raised.again /\ raised.kind \in {"record", "native", "static"}

\* No registration step of the load routine has acted.
NoLoadStepRan ==
    /\ cbInstalled = 0
    /\ installed = {}
    /\ fnDone = {} /\ recDone = {} /\ enumDone = {}

C18_NoRuntimeCallWhilePinned == critical = {}

Unheld(cb) == cb.heap # "none" /\ cb.wrapper \in {"none", "collected"}

\* C20: a heap-allocated native callback object handed to the runtime is
\* deallocated exactly once, and the deallocation is driven by the wrapper's
\* finalization hook when the wrapper is garbage-collected, not by an
\* explicit close call.
C20_DeallocatedOnceByFinalization ==
    \A k \in Callbacks :
        /\ callbacks[k].deallocs <= 1
        /\ callbacks[k].deallocs = 1 => callbacks[k].by = "cleaner"
        /\ Unheld(callbacks[k]) => callbacks[k].deallocs = 1

(***************************************************************************)
(* Exceptions that originate in managed code                               *)
(***************************************************************************)
JavaExceptionThrown == SomeCompleted /\ last.thrown.threw = "JavaException"

\* C21: when an exception that originated in managed code propagates out of
\* native code to a trampoline, the exception raised to the managed caller
\* is the very exception that was captured: same type, same message.
C21_JavaExceptionRethrownVerbatim ==
    JavaExceptionThrown =>
        /\ last.handling.outcome = "returned"
        /\ last.handling.pending = last.thrown.inner
        /\ last.handling.pending.class # "java.lang.Exception"
        /\ last.handling.pending.message = last.thrown.what

C21_Witness ==
    /\ JavaExceptionThrown
    /\ last.kind = "member" /\ last.called
    /\ last.handling.pending = ManagedError

(***************************************************************************)
(* Failed acquisitions                                                     *)
(***************************************************************************)
\* C22: raising the JavaException for a class, method or field that was not
\* found clears the runtime's pending exception: none is pending while the
\* error propagates through native code, and none is pending on return if
\* native code caught it.
C22_FailedAcquisitionClearsPending ==
    /\ apc = "propagating" => (~ExceptionCheck(jpending) /\ ExceptionCheck(inflight.inner))
    /\ (apc = "native" /\ Caught # {}) => ~ExceptionCheck(jpending)
    /\ (apc = "idle" /\ Caught # {} /\ inflight.threw = "nothing") => ~ExceptionCheck(areturn.pending)

C22_Witness ==
    /\ apc = "idle"
    /\ Caught = {"class", "field"}
    /\ inflight.threw = "nothing"
    /\ areturn.outcome = "returned"
    /\ areturn.pending = NoException

(***************************************************************************)
(* The frame of the builder methods                                        *)
(***************************************************************************)
\* A step of the initializer that is a call of constructor, function, field
\* or value on an existing builder.
BuilderMethodStep ==
    /\ lpc = "initializer" /\ lpc' = "initializer"
    /\ calls' = calls + 1
    /\ builders' = builders

\* Registry n is registry m with one descriptor appended to one entry.
AppendedOne(m, n) ==
    /\ DOMAIN n = DOMAIN m
    /\ \E k \in DOMAIN m :
          /\ Len(n[k]) = Len(m[k]) + 1
          /\ SubSeq(n[k], 1, Len(m[k])) = m[k]
          /\ \A j \in DOMAIN m \ {k} : n[j] = m[j]

\* C23: each call of a builder method (constructor, function, field, value)
\* appends exactly one binding descriptor to the registry entry of the
\* builder's own class and changes no other registry entry; the builder
\* stays the one the next call of the chain is made on.
C23_BuilderMethodAppendsOne ==
    [][BuilderMethodStep =>
          \/ /\ AppendedOne(FunctionBindings, FunctionBindings')
             /\ UNCHANGED <<FieldBindings, EnumBindings>>
          \/ /\ AppendedOne(FieldBindings, FieldBindings')
             /\ UNCHANGED <<FunctionBindings, EnumBindings>>
          \/ /\ AppendedOne(EnumBindings, EnumBindings')
             /\ UNCHANGED <<FunctionBindings, FieldBindings>>]_vars

(***************************************************************************)
(* Conversions                                                             *)
(***************************************************************************)
\* C24: for every element type, converting an absent native optional gives
\* the null reference, and converting the null reference to a native
\* optional gives the absent optional.
C24_AbsentOptionalIsNull ==
    /\ (rt.type.optional /\ rt.native = <<>>) => (rt.java.null /\ rt.back = <<>>)
    /\ (rt.type.optional /\ rt.native # <<>>) => ~rt.java.null
    /\ (fj.type.optional /\ fj.java.null) => fj.native = <<>>
    /\ (fj.type.optional /\ ~fj.java.null) => fj.native # <<>>

C24_Witness ==
    /\ rt.type = [kind |-> "record", optional |-> TRUE] /\ rt.native = <<>> /\ rt.java.null
    /\ fj.type = [kind |-> "string", optional |-> TRUE] /\ fj.java.null /\ fj.native = <<>>

\* C25: for every supported type among primitives, strings, arrays,
\* optionals and records, and every native value v of it, converting v to
\* its managed representation and back gives a value equal to v.
C25_RoundTripIsIdentity ==
    rt.type # NoType => rt.back = rt.native

(***************************************************************************)
(* Trampolines racing on one object                                        *)
(***************************************************************************)
\* Thread t completes a member call through the pointer it read.
MemberDereferences(t) ==
    tpc[t] = "member" /\ tpc'[t] = "idle" /\ tlocal[t].ptr # 0

\* Thread t executes delete on the pointer it read.
DestroyDeletes(t) ==
    tpc[t] = "destroy" /\ tpc'[t] = "deleted" /\ tlocal[t].ptr # 0

\* C26: under any interleaving of member and destructor trampolines running
\* on one object from different managed threads, the native object is never
\* dereferenced and never deleted again after it has been deleted.
C26_NoUseAfterDelete ==
    [][\A t \in Threads :
          /\ MemberDereferences(t) => heap[tlocal[t].ptr] = "live"
          /\ DestroyDeletes(t) => heap[tlocal[t].ptr] = "live"]_vars

(***************************************************************************)
(* Null handles                                                            *)
(***************************************************************************)
\* C27: whenever a trampoline reads a null native handle from an opaque
\* object, whether the object is the receiver of the call or an argument,
\* it raises the error about a disposed object and does not dereference
\* the null handle.
C27_NullHandleRaisesDisposed ==
    (last.kind \in {"member", "argument"} /\ last.nullHandle) =>
        /\ ~last.called
        /\ last.thrown = DisposedError(last.obj)
        /\ last.handling.outcome = "returned"
        /\ last.handling.pending = JavaLangException(DisposedError(last.obj).what)

(***************************************************************************)
(* Destroying twice                                                        *)
(***************************************************************************)
DestroyedAgain == last.kind = "destroy" /\ last.afterDestroy

LoadFailedAfterStore == lpc = "returned" /\ result = JNI_ERR

\* C29: if the load routine returns a failure status after it has stored
\* the process-wide runtime handle, the stored handle has been cleared
\* again, so the module is back in the Unloaded state and a later load can
\* start.
C29_FailedLoadClearsHandle ==
    LoadFailedAfterStore => (_vm = NullVM /\ Lifecycle = "Unloaded")

\* C30: a native callback object is never invoked after it has been
\* deallocated: once the wrapper's cleanup has run, by explicit close or by
\* collection, calling the wrapper's functional method does not dereference
\* the freed callback.
C30_NoCallAfterDeallocate ==
    \A k \in Callbacks : ~callbacks[k].appliedFreed

====
